---- MODULE Spec2Model ----
(***************************************************************************)
(* canadensis: the queue-only CAN driver (QueueOnlyDriver), the service    *)
(* request transmitter (Requester, NextTransferIds), the poll loop of the   *)
(* basic_node example, and the transfer segmentation and reassembly they   *)
(* feed.                                                                   *)
(***************************************************************************)
EXTENDS Integers, Sequences, FiniteSets, TLC

\* ---------------------------------------------------------------- bounds
\* TC, the transmit queue capacity in frames (const generic of the driver)
TC == 3
\* Arbitration values (CAN identifiers) of the frames the environment hands in
MaxCanId == 1
\* Number of distinct frames created in one behaviour
MaxFrames == 4
\* Largest argument given to try_reserve
MaxReserve == 2

\* NodeId::MAX.to_u8(), the largest node ID
NodeIdMax == 2
\* Largest payload length given to send_payload
MaxPayload == 13
\* Number of get_and_increment calls recorded for one destination
MaxCalls == 33
\* Number of send_payload calls in one behaviour
MaxSends == 2
\* Largest payload length given to the Transmitter for a round trip
MaxLength == 20
\* Number of transfers given to a Receiver that also sees loss and repeats
MaxPushes == 2
\* Session timeout of the Receiver, in clock ticks
RxTimeout == 1
\* Largest time of the Receiver's clock
MaxClock == 2
\* RC, the receive queue capacity in frames (const generic of the driver)
RC == 2
\* Number of frames handed to push_rx_frame in one behaviour
MaxRxFrames == 3
\* Longest list of subscriptions given to apply_filters
MaxSubscriptions == 3
\* Largest number of subscriptions the allocator has memory for
MaxRoom == 4
\* Largest run time of the node, in seconds
MaxRunTime == 10
\* Largest number of frames waiting in the node for the drain loop
MaxOut == 3

CanIds == 0..MaxCanId
NodeIds == 0..NodeIdMax
\* Mtu::Can8
Mtu == 8
\* the transfer-ID space
TransferIdModulus == 32
\* List::MAX_PUBLICATION_PERIOD, in seconds
MAX_PUBLICATION_PERIOD == 10

\* ----------------------------------------------------------------- state
VARIABLES
    tx_queue,   \* QueueOnlyDriver.tx_queue: frames, front first
    held,       \* frames popped by the external code and still owned by it
    sent,       \* number of frames the external code wrote to the CAN peripheral
    nextTag,    \* identity (timestamp and data) of the next frame created
    reserved,   \* transmit calls still covered by the last Ok try_reserve
    last,       \* the last call on the driver, its argument and its result
    requester,  \* Requester: this_node, priority, timeout
    ids,        \* Requester.next_transfer_ids.ids
    log,        \* per destination, the values get_and_increment returned
    panicked,   \* the program stopped on a panic
    arguments,  \* the arguments of the last send_payload call
    node,       \* basic_node main: position in the loop and its locals
    rx_queue,       \* QueueOnlyDriver.rx_queue: frames, front first
    subscriptions,  \* QueueOnlyDriver.subscriptions: a Vec, items and capacity
    rx_pushed,      \* the frames push_rx_frame accepted, in order
    rx_received,    \* the frames receive returned, in order
    filters,        \* the last apply_filters call: its list, whether memory ran out
    transfer,   \* the transfer last handed to the Transmitter
    wire,       \* the frames of that transfer not yet given to the Receiver
    receiver,   \* Receiver: the session and the last completed ID of each key
    delivered,  \* the transfers the handler got since the last push
    clock,      \* the time of the clock the Receiver is driven by
    pushes      \* number of transfers counted against MaxPushes

driverVars == <<tx_queue, held, sent, nextTag, reserved>>
requesterVars == <<requester, ids, log, panicked, arguments>>
rxVars == <<rx_queue, subscriptions, rx_pushed, rx_received, filters>>
transportVars == <<transfer, wire, receiver, delivered, clock, pushes>>
vars == <<tx_queue, held, sent, nextTag, reserved, last, requester, ids, log, panicked, arguments,
          node,
          rx_queue, subscriptions, rx_pushed, rx_received, filters, transfer, wire, receiver, delivered, clock, pushes>>

\* A frame: its CAN identifier and what tells it from every other frame
Frame(id, tag) == [id |-> id, tag |-> tag]
NoFrame == [id |-> -1, tag |-> 0]
Call(op, frame, n, result) == [op |-> op, frame |-> frame, n |-> n, result |-> result]

\* ------------------------------------------------------------ ArrayQueue
InsertAt(q, i, f) == SubSeq(q, 1, i - 1) \o <<f>> \o SubSeq(q, i, Len(q))

\* the first of the indices in later, Len(q) + 1 if there is none
FirstIndex(q, later) ==
    IF later = {} THEN Len(q) + 1
    ELSE CHOOSE i \in later : \A j \in later : i <= j

ArrayQueue_try_reserve(q, additional) ==
    IF Len(q) + additional <= TC THEN "Ok" ELSE "OutOfMemoryError"

\* a new frame goes behind every queued frame of the same or a lower identifier
ArrayQueue_push_frame(q, frame) ==
    IF Len(q) >= TC
    THEN [queue |-> q, result |-> "OutOfMemoryError"]
    ELSE LET later == {i \in 1..Len(q) : q[i].id > frame.id}
         IN  [queue |-> InsertAt(q, FirstIndex(q, later), frame), result |-> "Ok"]

ArrayQueue_pop_frame(q) ==
    IF q = <<>>
    THEN [queue |-> q, frame |-> NoFrame, result |-> "None"]
    ELSE [queue |-> Tail(q), frame |-> Head(q), result |-> "Some"]

\* a returned frame goes in front of every queued frame of the same or a
\* higher identifier, behind those of a lower identifier
ArrayQueue_return_frame(q, frame) ==
    IF Len(q) >= TC
    THEN [queue |-> q, result |-> "OutOfMemoryError"]
    ELSE LET later == {i \in 1..Len(q) : q[i].id >= frame.id}
         IN  [queue |-> InsertAt(q, FirstIndex(q, later), frame), result |-> "Ok"]

\* ------------------------------------------------------- QueueOnlyDriver
\* pop_tx_frame returning the front frame and leaving it in the queue
pop_tx_frame_peek(q) ==
    IF q = <<>>
    THEN [queue |-> q, frame |-> NoFrame, result |-> "None"]
    ELSE [queue |-> q, frame |-> Head(q), result |-> "Some"]

\* pop_tx_frame taking the frame at the back of the queue
pop_tx_frame_back(q) ==
    IF q = <<>>
    THEN [queue |-> q, frame |-> NoFrame, result |-> "None"]
    ELSE [queue |-> SubSeq(q, 1, Len(q) - 1), frame |-> q[Len(q)], result |-> "Some"]

pop_tx_frame(q) == ArrayQueue_pop_frame(q)

\* return_tx_frame calling push_frame instead of return_frame
return_tx_frame_as_push(q, frame) == ArrayQueue_push_frame(q, frame)

return_tx_frame(q, frame) == ArrayQueue_return_frame(q, frame)

\* try_reserve comparing the request with the capacity, not with the free slots
try_reserve_capacity(q, frames) == ArrayQueue_try_reserve(<<>>, frames)

try_reserve(q, frames) == ArrayQueue_try_reserve(q, frames)

\* transmit making room in a full queue by dropping its last frame
transmit_evicting(q, frame) ==
    LET room == IF Len(q) >= TC THEN SubSeq(q, 1, Len(q) - 1) ELSE q
    IN  [queue |-> ArrayQueue_push_frame(room, frame).queue, result |-> "Ok(None)"]

transmit(q, frame) ==
    LET pushed == ArrayQueue_push_frame(q, frame)
    IN  [queue |-> pushed.queue,
         result |-> IF pushed.result = "Ok" THEN "Ok(None)" ELSE "WouldBlock"]

\* push_rx_frame making room by dropping the oldest frame
push_rx_frame_overwriting(q, frame) ==
    IF Len(q) < RC
    THEN [queue |-> Append(q, frame), result |-> "Ok"]
    ELSE [queue |-> Append(Tail(q), frame), result |-> "Ok"]

\* push_rx_frame: Deque::push_back fails on a full queue and changes nothing
push_rx_frame(q, frame) ==
    IF Len(q) < RC
    THEN [queue |-> Append(q, frame), result |-> "Ok"]
    ELSE [queue |-> q, result |-> "OutOfMemoryError"]

\* receive taking the frame at the back of the queue
receive_back(q) ==
    IF q = <<>>
    THEN [queue |-> q, frame |-> NoFrame, result |-> "WouldBlock"]
    ELSE [queue |-> SubSeq(q, 1, Len(q) - 1), frame |-> q[Len(q)], result |-> "Ok"]

\* receive: Deque::pop_front, WouldBlock for None
receive(q) ==
    IF q = <<>>
    THEN [queue |-> q, frame |-> NoFrame, result |-> "WouldBlock"]
    ELSE [queue |-> Tail(q), frame |-> Head(q), result |-> "Ok"]

\* Vec::new(): no items, nothing allocated
Vec_new == [items |-> <<>>, capacity |-> 0]

\* FallibleVec::try_push: a full Vec grows to twice its capacity, which
\* fails if the allocator has no room for that many items
FallibleVec_try_push(vec, item, room) ==
    LET grown == IF vec.capacity = 0 THEN 1 ELSE 2 * vec.capacity
    IN  IF Len(vec.items) < vec.capacity
        THEN [vec |-> [vec EXCEPT !.items = Append(@, item)], result |-> "Ok"]
        ELSE IF grown <= room
        THEN [vec |-> [items |-> Append(vec.items, item), capacity |-> grown],
              result |-> "Ok"]
        ELSE [vec |-> vec, result |-> "Err"]

\* the loop of apply_filters leaving what it collected when memory runs out
RECURSIVE apply_filters_partial_loop(_, _, _)
apply_filters_partial_loop(vec, rest, room) ==
    IF rest = <<>>
    THEN [vec |-> vec, failed |-> FALSE, collected |-> Len(vec.items)]
    ELSE LET r == FallibleVec_try_push(vec, Head(rest), room)
         IN  IF r.result = "Err"
             THEN [vec |-> vec, failed |-> TRUE, collected |-> Len(vec.items)]
             ELSE apply_filters_partial_loop(r.vec, Tail(rest), room)

\* the loop of apply_filters: on Err, clear, shrink_to_fit and break
RECURSIVE apply_filters_loop(_, _, _)
apply_filters_loop(vec, rest, room) ==
    IF rest = <<>>
    THEN [vec |-> vec, failed |-> FALSE, collected |-> Len(vec.items)]
    ELSE LET r == FallibleVec_try_push(vec, Head(rest), room)
         IN  IF r.result = "Err"
             THEN [vec |-> Vec_new, failed |-> TRUE, collected |-> Len(vec.items)]
             ELSE apply_filters_loop(r.vec, Tail(rest), room)

\* apply_filters without the clear on an allocation failure
apply_filters_partial(vec, list, room) ==
    apply_filters_partial_loop([vec EXCEPT !.items = <<>>], list, room)

\* apply_filters: clear (the capacity stays), then collect the subscriptions
apply_filters(vec, list, room) ==
    apply_filters_loop([vec EXCEPT !.items = <<>>], list, room)

\* subscriptions(): the stored subscriptions as a slice
QueueOnlyDriver_subscriptions(vec) == vec.items

\* ------------------------------------------------- transfers and frames
Priorities == 0..1
Ports == 0..1
Kinds == <<"Message", "Request", "Response">>
NoNode == -1

KindIndex(kind) == CHOOSE k \in 1..Len(Kinds) : Kinds[k] = kind

Header(source, priority, kind, port, destination) ==
    [source |-> source, priority |-> priority, kind |-> kind, port |-> port,
     destination |-> destination]

Transfer(timestamp, header, transfer_id, payload) ==
    [timestamp |-> timestamp, header |-> header, transfer_id |-> transfer_id,
     payload |-> payload]

\* the payload of the given length that a transfer carries
PayloadBytes(length, seed) == [i \in 1..length |-> (7 * seed + 37 * i) % 256]

NoTransfer == Transfer(0, Header(NoNode, 0, "None", 0, NoNode), 0, <<>>)

\* the CAN identifier of a header: priority first, then the kind, the subject
\* or service, the destination (0 in a message) and the source
CanId_encode(h) ==
    LET destination == IF h.kind = "Message" THEN 0 ELSE h.destination
    IN  ((((h.priority * Len(Kinds) + (KindIndex(h.kind) - 1)) * Cardinality(Ports)
            + h.port) * (NodeIdMax + 1) + destination) * (NodeIdMax + 1)) + h.source

CanId_decode(id) ==
    LET nodes == NodeIdMax + 1
        source == id % nodes
        destination == (id \div nodes) % nodes
        port == (id \div (nodes * nodes)) % Cardinality(Ports)
        kind == Kinds[((id \div (nodes * nodes * Cardinality(Ports))) % Len(Kinds)) + 1]
        priority == id \div (nodes * nodes * Cardinality(Ports) * Len(Kinds))
    IN  Header(source, priority, kind, port,
               IF kind = "Message" THEN NoNode ELSE destination)

\* the tail byte with the toggle bit inverted
TailByte_inverted(start, end, toggle, transfer_id) ==
    (IF start THEN 128 ELSE 0) + (IF end THEN 64 ELSE 0) + (1 - toggle) * 32 + transfer_id

\* the tail byte: bit 7 start, bit 6 end, bit 5 toggle, bits 4..0 transfer-ID
TailByte(start, end, toggle, transfer_id) ==
    (IF start THEN 128 ELSE 0) + (IF end THEN 64 ELSE 0) + toggle * 32 + transfer_id

Tail_decode(byte) ==
    [start |-> (byte \div 128) % 2 = 1, end |-> (byte \div 64) % 2 = 1,
     toggle |-> (byte \div 32) % 2, transfer_id |-> byte % 32]

RECURSIVE Xor(_, _)
\* bitwise exclusive or of two naturals
Xor(a, b) ==
    IF a = 0 THEN b
    ELSE IF b = 0 THEN a
    ELSE ((a + b) % 2) + 2 * Xor(a \div 2, b \div 2)

RECURSIVE CrcShift(_, _)
\* `bits` steps of the 16-bit CRC register, polynomial 0x1021
CrcShift(crc, bits) ==
    IF bits = 0 THEN crc
    ELSE LET next == IF crc >= 32768 THEN Xor((crc * 2) % 65536, 4129)
                     ELSE (crc * 2) % 65536
         IN  IF next >= 0 THEN CrcShift(next, bits - 1) ELSE 0

\* the register after one byte, for each value of its high byte
CrcTable == [high \in 0..255 |-> CrcShift(high * 256, 8)]

Crc_add(crc, byte) ==
    LET entry == CrcTable[Xor(crc \div 256, byte)]
    IN  Xor(crc % 256, entry \div 256) * 256 + (entry % 256)

RECURSIVE Crc_add_all(_, _)
Crc_add_all(crc, bytes) ==
    IF bytes = <<>> THEN crc
    ELSE LET next == Crc_add(crc, Head(bytes))
         IN  IF next >= 0 THEN Crc_add_all(next, Tail(bytes)) ELSE 0

\* the checksum of a payload, initial value 0xFFFF
TransferCrc(payload) == Crc_add_all(65535, payload)

\* a CAN frame on the bus: identifier and data, the tail byte last
CanFrame(id, data) == [id |-> id, data |-> data]

Min(a, b) == IF a <= b THEN a ELSE b

\* the stream with the checksum appended low byte first
Stream_low_first(payload, mtu) ==
    IF Len(payload) <= mtu - 1 THEN payload
    ELSE LET crc == TransferCrc(payload)
         IN  payload \o <<crc % 256, crc \div 256>>

\* the bytes of a transfer as they are cut into frames: the payload alone if
\* it fits one frame, else the payload and its checksum, high byte first
Stream(payload, mtu) ==
    IF Len(payload) <= mtu - 1 THEN payload
    ELSE LET crc == TransferCrc(payload)
         IN  payload \o <<crc \div 256, crc % 256>>

\* Transmitter: the frames of a transfer, one per chunk of mtu - 1 bytes,
\* start on the first, end on the last, the toggle alternating from 0
Segment(t, mtu) ==
    LET stream == Stream(t.payload, mtu)
        count == IF stream = <<>> THEN 1
                 ELSE (Len(stream) + (mtu - 2)) \div (mtu - 1)
        id == CanId_encode(t.header)
    IN  [k \in 1..count |->
            CanFrame(id,
                SubSeq(stream, (k - 1) * (mtu - 1) + 1, Min(k * (mtu - 1), Len(stream)))
                \o <<TailByte(k = 1, k = count, (k - 1) % 2, t.transfer_id)>>)]

\* --------------------------------------------------------------- Receiver
Keys == NodeIds \X {Kinds[k] : k \in 1..Len(Kinds)} \X Ports
NoSession == [transfer_id |-> -1, toggle |-> 0, buffer |-> <<>>, last_activity |-> 0]
NotSeen == -1

Receiver_new == [sessions |-> [key \in Keys |-> NoSession],
                 seen |-> [key \in Keys |-> NotSeen]]

\* a transfer-ID any different from b counts as newer
Newer_any(a, b) == a # b

\* a is ahead of b by less than half of the transfer-ID space
Newer(a, b) ==
    LET forward == (a - b + TransferIdModulus) % TransferIdModulus
    IN  forward >= 1 /\ forward < TransferIdModulus \div 2

KeyOf(h) == <<h.source, h.kind, h.port>>

\* what accept_frame leaves: the receiver and the transfers it delivered
Accepted(r, out) == [receiver |-> r, delivered |-> out]

\* a start frame: a duplicate of a completed transfer or of the session in
\* progress is dropped; else it delivers a single-frame transfer or opens a
\* session in place of a stale one
Receiver_start(r, key, h, tail, body, time) ==
    LET session == r.sessions[key]
        duplicate == r.seen[key] # NotSeen /\ ~Newer(tail.transfer_id, r.seen[key])
        fresh == session = NoSession \/ Newer(tail.transfer_id, session.transfer_id)
    IN  IF duplicate \/ ~fresh \/ tail.toggle # 0
        THEN Accepted(r, <<>>)
        ELSE IF tail.end
        THEN Accepted([sessions |-> [r.sessions EXCEPT ![key] = NoSession],
                       seen |-> [r.seen EXCEPT ![key] = tail.transfer_id]],
                      <<Transfer(time, h, tail.transfer_id, body)>>)
        ELSE Accepted([r EXCEPT !.sessions[key] =
                          [transfer_id |-> tail.transfer_id, toggle |-> 1,
                           buffer |-> body, last_activity |-> time]],
                      <<>>)

\* a frame that continues a transfer: it must match the session's ID and
\* toggle, else the session is evicted; the last one is checked against the
\* checksum and the transfer delivered without it
Receiver_continue(r, key, h, tail, body, time) ==
    LET session == r.sessions[key]
        buffer == session.buffer \o body
        length == Len(buffer) - 2
    IN  IF session = NoSession
        THEN Accepted(r, <<>>)
        ELSE IF tail.transfer_id # session.transfer_id \/ tail.toggle # session.toggle
        THEN Accepted([r EXCEPT !.sessions[key] = NoSession], <<>>)
        ELSE IF ~tail.end
        THEN Accepted([r EXCEPT !.sessions[key] =
                          [session EXCEPT !.buffer = buffer, !.toggle = 1 - @,
                                          !.last_activity = time]],
                      <<>>)
        ELSE IF length >= 0 /\
                TransferCrc(SubSeq(buffer, 1, length)) =
                    buffer[length + 1] * 256 + buffer[length + 2]
        THEN Accepted([sessions |-> [r.sessions EXCEPT ![key] = NoSession],
                       seen |-> [r.seen EXCEPT ![key] = tail.transfer_id]],
                      <<Transfer(time, h, tail.transfer_id, SubSeq(buffer, 1, length))>>)
        ELSE Accepted([r EXCEPT !.sessions[key] = NoSession], <<>>)

\* Receiver: one frame; a frame without a tail byte is dropped
Receiver_accept(r, frame, time) ==
    IF frame.data = <<>>
    THEN Accepted(r, <<>>)
    ELSE LET h == CanId_decode(frame.id)
             tail == Tail_decode(frame.data[Len(frame.data)])
             body == SubSeq(frame.data, 1, Len(frame.data) - 1)
         IN  IF tail.start
             THEN Receiver_start(r, KeyOf(h), h, tail, body, time)
             ELSE Receiver_continue(r, KeyOf(h), h, tail, body, time)

Expired(session, time, timeout) ==
    session # NoSession /\ time - session.last_activity > timeout

\* the sweep taking the sessions that are exactly as old as the timeout too
Receiver_sweep_early(r, time, timeout) ==
    [r EXCEPT !.sessions = [key \in Keys |->
        IF r.sessions[key] # NoSession /\ time - r.sessions[key].last_activity >= timeout
        THEN NoSession ELSE r.sessions[key]]]

\* the garbage-collection sweep: evicts the sessions idle beyond the timeout
Receiver_sweep(r, time, timeout) ==
    [r EXCEPT !.sessions = [key \in Keys |->
        IF Expired(r.sessions[key], time, timeout) THEN NoSession ELSE r.sessions[key]]]

\* ------------------------------------------------------------ Transmitter
\* frames of a transfer: one if the payload fits beside the tail byte, else
\* the payload and its 2 checksum bytes in chunks of Mtu - 1 bytes
FrameCount(length) ==
    IF length <= Mtu - 1 THEN 1 ELSE (length + 2 + (Mtu - 2)) \div (Mtu - 1)

\* the identifier of a request frame: priority first, then service,
\* destination and source
RequestCanId(priority, service, destination, source) ==
    ((priority * 2 + service) * (NodeIdMax + 1) + destination) * (NodeIdMax + 1) + source

RECURSIVE PushFrames(_, _)
PushFrames(q, frames) ==
    IF frames = <<>>
    THEN [queue |-> q, result |-> "Ok"]
    ELSE LET r == transmit(q, Head(frames))
         IN  IF r.result = "Ok(None)"
             THEN PushFrames(r.queue, Tail(frames))
             ELSE [queue |-> r.queue, result |-> "OutOfMemoryError"]

\* Transmitter::push: reserve room for every frame, then enqueue them
Transmitter_push(q, frames) ==
    IF try_reserve(q, Len(frames)) = "Ok"
    THEN PushFrames(q, frames)
    ELSE [queue |-> q, result |-> "OutOfMemoryError"]

\* ------------------------------------------------------- NextTransferIds
TransferId_default == 0
TransferId_increment(t) == (t + 1) % TransferIdModulus

NextTransferIds_new == [i \in 0..(NodeIdMax - 1) |-> TransferId_default]

\* get_and_increment advancing one counter shared by every destination
get_and_increment_all(m, destination) ==
    IF destination \notin DOMAIN m
    THEN [ids |-> m, transfer_id |-> 0, result |-> "panic"]
    ELSE [ids |-> [d \in DOMAIN m |-> TransferId_increment(m[destination])],
          transfer_id |-> m[destination], result |-> "Ok"]

\* get_and_increment returning the stored ID after the increment
get_and_increment_after(m, destination) ==
    IF destination \notin DOMAIN m
    THEN [ids |-> m, transfer_id |-> 0, result |-> "panic"]
    ELSE [ids |-> [m EXCEPT ![destination] = TransferId_increment(@)],
          transfer_id |-> TransferId_increment(m[destination]), result |-> "Ok"]

\* indexing past the end of the array panics
get_and_increment(m, destination) ==
    IF destination \notin DOMAIN m
    THEN [ids |-> m, transfer_id |-> 0, result |-> "panic"]
    ELSE [ids |-> [m EXCEPT ![destination] = TransferId_increment(@)],
          transfer_id |-> m[destination], result |-> "Ok"]

RECURSIVE Calls(_, _)
\* number of values get_and_increment returned for the destinations in S
Calls(l, S) ==
    IF S = {} THEN 0
    ELSE LET d == CHOOSE x \in S : TRUE IN Len(l[d]) + Calls(l, S \ {d})

Requester_new(this_node, timeout, priority) ==
    [this_node |-> this_node, priority |-> priority, timeout |-> timeout]

\* send taking the time of the call as the deadline
send_deadline_now(timeout, now) == now

\* send: the deadline of the request
send_deadline(timeout, now) == timeout + now

\* send_payload: the transfer handed to the Transmitter
request_transfer(r, deadline, service, destination, transfer_id, payload) ==
    Transfer(deadline, Header(r.this_node, r.priority, "Request", service, destination),
             transfer_id, payload)

InitDriver ==
    /\ tx_queue = <<>>
    /\ held = {}
    /\ sent = 0
    /\ nextTag = 1
    /\ reserved = 0
    /\ last = Call("new", NoFrame, 0, "Ok")

NoRequest == [payload |-> <<>>, service |-> -1, destination |-> NoNode, now |-> 0]

InitLedger ==
    /\ ids = NextTransferIds_new
    /\ log = [d \in NodeIds |-> <<>>]
    /\ panicked = FALSE
    /\ arguments = NoRequest

\* main up to the loop: nothing read, nothing queued
InitNode ==
    node = [pc |-> "read", run_time_seconds |-> 0, frame |-> NoFrame,
            out |-> 0, exit |-> "none"]

InitRx ==
    /\ rx_queue = <<>>
    /\ subscriptions = Vec_new
    /\ rx_pushed = <<>>
    /\ rx_received = <<>>
    /\ filters = [called |-> FALSE, list |-> <<>>, failed |-> FALSE]

InitTransport ==
    /\ transfer = NoTransfer
    /\ wire = <<>>
    /\ receiver = Receiver_new
    /\ delivered = <<>>
    /\ clock = 0
    /\ pushes = 0

Init ==
    /\ InitDriver
    /\ InitLedger
    /\ InitNode
    /\ InitRx
    /\ InitTransport
    /\ requester = Requester_new(0, 1, 0)

InitRequester ==
    /\ InitDriver
    /\ InitLedger
    /\ InitNode
    /\ InitRx
    /\ InitTransport
    /\ \E this_node \in 0..1, priority \in 0..1 :
          requester = Requester_new(this_node, 1, priority)

\* TransmitDriver::transmit with a new frame; the frame is moved into the call
Transmit(id) ==
    /\ ~panicked
    /\ nextTag <= MaxFrames
    /\ LET frame == Frame(id, nextTag)
           r == transmit(tx_queue, frame)
       IN  /\ tx_queue' = r.queue
           /\ last' = Call("transmit", frame, reserved, r.result)
    /\ nextTag' = nextTag + 1
    /\ reserved' = IF reserved > 0 THEN reserved - 1 ELSE 0
    /\ UNCHANGED <<held, sent, requesterVars, node, rxVars, transportVars>>

\* pop_tx_frame; a returned frame passes to the external code
PopTxFrame ==
    /\ ~panicked
    /\ LET r == pop_tx_frame(tx_queue)
       IN  /\ tx_queue' = r.queue
           /\ held' = IF r.result = "Some" THEN held \cup {r.frame} ELSE held
           /\ last' = Call("pop_tx_frame", r.frame, 0, r.result)
    /\ UNCHANGED <<sent, nextTag, reserved, requesterVars, node, rxVars, transportVars>>

\* return_tx_frame with a frame popped before; the frame is moved into the call
ReturnTxFrame(frame) ==
    /\ ~panicked
    /\ frame \in held
    /\ LET r == return_tx_frame(tx_queue, frame)
       IN  /\ tx_queue' = r.queue
           /\ last' = Call("return_tx_frame", frame, 0, r.result)
    /\ held' = held \ {frame}
    /\ reserved' = 0
    /\ UNCHANGED <<sent, nextTag, requesterVars, node, rxVars, transportVars>>

\* TransmitDriver::try_reserve
TryReserve(frames) ==
    /\ ~panicked
    /\ LET r == try_reserve(tx_queue, frames)
       IN  /\ last' = Call("try_reserve", NoFrame, frames, r)
           /\ reserved' = IF r = "Ok" THEN frames ELSE 0
    /\ UNCHANGED <<tx_queue, held, sent, nextTag, requesterVars, node, rxVars, transportVars>>

\* the external code wrote a popped frame to the CAN peripheral
WriteFrame(frame) ==
    /\ ~panicked
    /\ frame \in held
    /\ held' = held \ {frame}
    /\ sent' = sent + 1
    /\ last' = Call("write_frame", frame, 0, "Ok")
    /\ UNCHANGED <<tx_queue, nextTag, reserved, requesterVars, node, rxVars, transportVars>>

\* NextTransferIds::get_and_increment
GetAndIncrement(destination) ==
    /\ ~panicked
    /\ Len(log[destination]) < MaxCalls
    /\ LET r == get_and_increment(ids, destination)
       IN  /\ ids' = r.ids
           /\ panicked' = (r.result = "panic")
           /\ log' = IF r.result = "panic" THEN log
                     ELSE [log EXCEPT ![destination] = Append(@, r.transfer_id)]
           /\ last' = Call("get_and_increment", NoFrame, destination, r.result)
    /\ UNCHANGED <<driverVars, requester, arguments, node, rxVars, transportVars>>

\* Requester::send_payload
SendPayload(length, service, destination, now) ==
    /\ ~panicked
    /\ nextTag + FrameCount(length) - 1 <= MaxFrames
    /\ Calls(log, NodeIds) < MaxSends
    /\ LET g == get_and_increment(ids, destination)
           deadline == send_deadline(requester.timeout, now)
           payload == PayloadBytes(length, 0)
           id == RequestCanId(requester.priority, service, destination, requester.this_node)
           frames == [k \in 1..FrameCount(length) |-> Frame(id, nextTag + k - 1)]
           r == Transmitter_push(tx_queue, frames)
       IN  IF g.result = "panic"
           THEN /\ panicked' = TRUE
                /\ last' = Call("send_payload", Frame(id, nextTag), Len(frames), "panic")
                /\ UNCHANGED <<tx_queue, ids, log, transfer>>
           ELSE /\ panicked' = FALSE
                /\ ids' = g.ids
                /\ transfer' = request_transfer(requester, deadline, service, destination,
                                                g.transfer_id, payload)
                /\ log' = [log EXCEPT ![destination] = Append(@, g.transfer_id)]
                /\ tx_queue' = r.queue
                /\ last' = Call("send_payload", Frame(id, nextTag), Len(frames), r.result)
    /\ arguments' = [payload |-> PayloadBytes(length, 0), service |-> service,
                    destination |-> destination, now |-> now]
    /\ nextTag' = nextTag + FrameCount(length)
    /\ reserved' = 0
    /\ UNCHANGED <<held, sent, requester, node, rxVars, wire, receiver, delivered, clock, pushes>>

\* ------------------------------------------------------- receive side
\* the lists of subscriptions the core hands to apply_filters
SubscriptionLists == {[i \in 1..n |-> i % 3] : n \in 0..MaxSubscriptions}
\* the identifiers of the received frames: the highest and the lowest priority
RxIds == {0, MaxCanId}

NotRx == <<driverVars, requesterVars, node, transportVars>>

\* push_rx_frame with a frame from the CAN peripheral; the frame is moved
\* into the call and is gone if the queue is full
PushRxFrame(id) ==
    /\ nextTag <= MaxRxFrames
    /\ LET frame == Frame(id, nextTag)
           r == push_rx_frame(rx_queue, frame)
       IN  /\ rx_queue' = r.queue
           /\ rx_pushed' = IF r.result = "Ok" THEN Append(rx_pushed, frame) ELSE rx_pushed
           /\ last' = Call("push_rx_frame", frame, Len(rx_queue), r.result)
    /\ nextTag' = nextTag + 1
    /\ UNCHANGED <<tx_queue, held, sent, reserved, subscriptions, rx_received, filters,
                   requesterVars, node, transportVars>>

\* ReceiveDriver::receive
Receive ==
    /\ LET r == receive(rx_queue)
       IN  /\ rx_queue' = r.queue
           /\ rx_received' = IF r.result = "Ok" THEN Append(rx_received, r.frame) ELSE rx_received
           /\ last' = Call("receive", r.frame, Len(rx_queue), r.result)
    /\ UNCHANGED <<subscriptions, rx_pushed, filters, NotRx>>

\* ReceiveDriver::apply_filters; room is the memory the allocator has left
ApplyFilters(list, room) ==
    /\ LET r == apply_filters(subscriptions, list, room)
       IN  /\ subscriptions' = r.vec
           /\ filters' = [called |-> TRUE, list |-> list, failed |-> r.failed]
           /\ last' = Call("apply_filters", NoFrame, r.collected, "()")
    /\ UNCHANGED <<rx_queue, rx_pushed, rx_received, NotRx>>

NextRx ==
    \/ \E id \in RxIds : PushRxFrame(id)
    \/ Receive
    \/ \E list \in SubscriptionLists, room \in 0..MaxRoom : ApplyFilters(list, room)

SpecRx == Init /\ [][NextRx]_vars

\* ------------------------------------------- segmentation and reassembly
\* the headers, transfer-IDs and payloads the transfers are drawn from
MessageSample == Header(0, 0, "Message", 0, NoNode)
RequestSample == Header(1, 1, "Request", 1, NodeIdMax)
ResponseSample == Header(NodeIdMax, 0, "Response", 1, 0)
HeaderSamples == {MessageSample, RequestSample}
RoundTripSamples ==
    {<<MessageSample, TransferIdModulus - 1>>, <<MessageSample, 0>>,
     <<RequestSample, 1>>, <<ResponseSample, TransferIdModulus - 1>>}
TidSamples == {0, TransferIdModulus - 1}
\* payloads of one frame and of three frames
ShortLengths == {1, 2 * Mtu - 3}

NotTransport == <<driverVars, requesterVars, node, rxVars>>

\* Transmitter: a transfer is cut into frames, which go onto the bus
PushTransfer(t, counted) ==
    /\ wire = <<>>
    /\ pushes' = IF counted THEN pushes + 1 ELSE pushes
    /\ transfer' = t
    /\ wire' = Segment(t, Mtu)
    /\ delivered' = <<>>
    /\ last' = Call("push", NoFrame, Len(wire'), "Ok")
    /\ UNCHANGED <<receiver, clock, NotTransport>>

\* Receiver: the next frame from the bus
AcceptFrame ==
    /\ wire # <<>>
    /\ LET r == Receiver_accept(receiver, Head(wire), clock)
       IN  /\ receiver' = r.receiver
           /\ delivered' = delivered \o r.delivered
           /\ last' = Call("accept_frame", NoFrame, Len(r.delivered), "Ok")
    /\ wire' = Tail(wire)
    /\ UNCHANGED <<transfer, clock, pushes, NotTransport>>

\* the bus loses the next frame
LoseFrame ==
    /\ wire # <<>>
    /\ wire' = Tail(wire)
    /\ last' = Call("lose_frame", NoFrame, 0, "Ok")
    /\ UNCHANGED <<transfer, receiver, delivered, clock, pushes, NotTransport>>

Tick ==
    /\ clock < MaxClock
    /\ clock' = clock + 1
    /\ last' = Call("tick", NoFrame, 0, "Ok")
    /\ UNCHANGED <<transfer, wire, receiver, delivered, pushes, NotTransport>>

\* the scheduler runs the garbage-collection sweep with the current time
Sweep ==
    /\ receiver' = Receiver_sweep(receiver, clock, RxTimeout)
    /\ last' = Call("sweep", NoFrame,
                    Cardinality({key \in Keys :
                        receiver.sessions[key] # NoSession /\
                        Receiver_sweep(receiver, clock, RxTimeout).sessions[key] = NoSession}),
                    "Ok")
    /\ UNCHANGED <<transfer, wire, delivered, clock, pushes, NotTransport>>

\* a transfer the receiver has not seen: no session of its key is open and
\* its transfer-ID is ahead of the key's last completed one
Fresh(h, transfer_id) ==
    /\ receiver.sessions[KeyOf(h)] = NoSession
    /\ \/ receiver.seen[KeyOf(h)] = NotSeen
       \/ Newer(transfer_id, receiver.seen[KeyOf(h)])

\* new transfers of every length, every frame given to the receiver in order
NextRoundTrip ==
    \/ \E sample \in RoundTripSamples, length \in 0..MaxLength :
          /\ Fresh(sample[1], sample[2])
          /\ PushTransfer(Transfer(0, sample[1], sample[2],
                                   PayloadBytes(length, sample[2])), FALSE)
    \/ AcceptFrame

SpecRoundTrip == Init /\ [][NextRoundTrip]_vars

\* transfers new and repeated, frames lost, time passing, sweeps
NextReceiver ==
    \/ \E h \in HeaderSamples, transfer_id \in TidSamples, length \in ShortLengths :
          /\ pushes < MaxPushes
          /\ PushTransfer(Transfer(0, h, transfer_id, PayloadBytes(length, transfer_id)),
                          TRUE)
    \/ AcceptFrame
    \/ LoseFrame
    \/ Tick
    \/ Sweep

SpecReceiver == Init /\ [][NextReceiver]_vars

\* ------------------------------------------------------ basic_node main
OtherVars == <<driverVars, last, requesterVars, rxVars, transportVars>>
Results == {"Ok", "OutOfMemoryError"}

\* expect("Out of memory") on a Result
expect(result) == IF result = "Ok" THEN "Ok" ELSE "panic"

\* top of the loop: take the run time, then can.read_frame(). The clock is
\* cut off at MaxRunTime; the identifier of a frame read from the socket fits
\* 29 bits, so CanId::try_from(frame.id()).unwrap() is taken to succeed.
NodeReadFrame(now, rx_status, id) ==
    /\ node.pc = "read"
    /\ now >= node.run_time_seconds
    /\ node' = CASE rx_status = "Ok" ->
                    [node EXCEPT !.pc = "accept", !.run_time_seconds = now,
                                 !.frame = Frame(id, 0)]
                 [] rx_status \in {"WouldBlock", "TimedOut"} ->
                    [node EXCEPT !.pc = "heartbeat", !.run_time_seconds = now]
                 [] OTHER ->
                    [node EXCEPT !.pc = "returned", !.run_time_seconds = now,
                                 !.exit = rx_status]
    /\ UNCHANGED OtherVars

\* uavcan.accept_frame(frame).expect(..); a frame that completes a GetInfo
\* request runs handle_request, which calls send_response(..).expect(..)
NodeAcceptFrame(accepted, request, responded) ==
    /\ node.pc = "accept"
    /\ node' = IF request /\ expect(responded) = "panic"
               THEN [node EXCEPT !.pc = "panicked", !.frame = NoFrame]
               ELSE IF expect(accepted) = "panic"
               THEN [node EXCEPT !.pc = "panicked", !.frame = NoFrame]
               ELSE [node EXCEPT !.pc = "heartbeat", !.frame = NoFrame,
                                 !.out = IF request /\ @ < MaxOut THEN @ + 1 ELSE @]
    /\ UNCHANGED OtherVars

\* uavcan.publish_to_topic(&heartbeat_token, &heartbeat).expect(..)
NodePublishHeartbeat(published) ==
    /\ node.pc = "heartbeat"
    /\ node' = IF expect(published) = "panic"
               THEN [node EXCEPT !.pc = "panicked"]
               ELSE [node EXCEPT
                       !.pc = IF node.run_time_seconds % MAX_PUBLICATION_PERIOD = 0
                              THEN "port_list" ELSE "send",
                       !.out = IF @ < MaxOut THEN @ + 1 ELSE @]
    /\ UNCHANGED OtherVars

\* uavcan.publish_to_topic(&port_list_token, &port_list).expect(..)
NodePublishPortList(published) ==
    /\ node.pc = "port_list"
    /\ node' = IF expect(published) = "panic"
               THEN [node EXCEPT !.pc = "panicked"]
               ELSE [node EXCEPT !.pc = "send",
                                 !.out = IF @ < MaxOut THEN @ + 1 ELSE @]
    /\ UNCHANGED OtherVars

\* while let Some(out_frame) = uavcan.pop_frame() { can.write_frame(..)? }
NodeSendFrames(written) ==
    /\ node.pc = "send"
    /\ node' = IF node.out = 0
               THEN [node EXCEPT !.pc = "read"]
               ELSE IF written = "Ok"
               THEN [node EXCEPT !.out = @ - 1]
               ELSE [node EXCEPT !.pc = "returned", !.out = @ - 1, !.exit = written]
    /\ UNCHANGED OtherVars

NextNode ==
    \/ \E now \in 0..MaxRunTime, id \in CanIds,
          rx_status \in {"Ok", "WouldBlock", "TimedOut", "Other"} :
          NodeReadFrame(now, rx_status, id)
    \/ \E accepted \in Results, request \in BOOLEAN, responded \in Results :
          NodeAcceptFrame(accepted, request, responded)
    \/ \E published \in Results : NodePublishHeartbeat(published)
    \/ \E published \in Results : NodePublishPortList(published)
    \/ \E written \in {"Ok", "Other"} : NodeSendFrames(written)

SpecNode == Init /\ [][NextNode]_vars

Next ==
    \/ \E id \in CanIds : Transmit(id)
    \/ PopTxFrame
    \/ \E frame \in held : ReturnTxFrame(frame)
    \/ \E frames \in 0..MaxReserve : TryReserve(frames)
    \/ \E frame \in held : WriteFrame(frame)

Spec == Init /\ [][Next]_vars

\* the calls that move frames into and out of the transmit queue
NextQueue ==
    \/ \E id \in CanIds : Transmit(id)
    \/ PopTxFrame
    \/ \E frame \in held : ReturnTxFrame(frame)
    \/ \E frame \in held : WriteFrame(frame)

SpecQueue == Init /\ [][NextQueue]_vars

\* pushes and pops only
NextPushPop ==
    \/ \E id \in CanIds : Transmit(id)
    \/ PopTxFrame

SpecPushPop == Init /\ [][NextPushPop]_vars

\* the ledger alone
NextLedger == \E destination \in NodeIds : GetAndIncrement(destination)

SpecLedger == Init /\ [][NextLedger]_vars

\* payloads of one frame, of the most that fits one, of two and of the most
RequestLengths == {0, Mtu - 1, Mtu, MaxPayload}

\* requests sent through the Transmitter into the driver's queue, which the
\* external code drains
NextRequester ==
    \/ \E length \in RequestLengths, service \in 0..1, destination \in NodeIds :
          SendPayload(length, service, destination, clock)
    \/ PopTxFrame

SpecRequester == InitRequester /\ [][NextRequester]_vars

\* requests sent at different times of the clock
NextSend ==
    \/ \E length \in {0, Mtu}, service \in 0..1, destination \in NodeIds :
          SendPayload(length, service, destination, clock)
    \/ Tick

SpecSend == InitRequester /\ [][NextSend]_vars

\* ---------------------------------------------------------------- claims
QueueIndex == 1..Len(tx_queue)

\* C1: with pushes and pops only, every pop returns a frame whose identifier
\* is no greater than that of any frame left in the queue, and a frame left
\* in the queue with the same identifier was enqueued after the popped one.
C1_PopPriorityFifo ==
    (last.op = "pop_tx_frame" /\ last.result = "Some") =>
        \A i \in QueueIndex :
            \/ last.frame.id < tx_queue[i].id
            \/ last.frame.id = tx_queue[i].id /\ last.frame.tag < tx_queue[i].tag

C1_Witness ==
    /\ last.op = "pop_tx_frame" /\ last.result = "Some"
    /\ \E i \in QueueIndex : tx_queue[i].id = last.frame.id
    /\ \E i \in QueueIndex : tx_queue[i].id > last.frame.id

\* C2: transmit on a queue that holds TC frames returns WouldBlock and leaves
\* the queue as it was.
C2_FullPushFails ==
    [][(last'.op = "transmit" /\ Len(tx_queue) = TC) =>
            (last'.result = "WouldBlock" /\ tx_queue' = tx_queue)]_vars

C2_Witness ==
    last.op = "transmit" /\ last.result = "WouldBlock" /\ Len(tx_queue) = TC

\* C3: no frame is lost: the frames handed to the driver are all in the
\* transmit queue, held by the external code, or written to the peripheral.
C3_NoFrameLost ==
    Len(tx_queue) + Cardinality(held) + sent = nextTag - 1

\* C4: a frame that return_tx_frame re-inserted stands behind every queued
\* frame of a lower identifier and before every queued frame of the same or
\* a higher identifier; the next pop returns it iff no queued frame has a
\* lower identifier.
C4_ReturnPosition ==
    (last.op = "return_tx_frame" /\ last.result = "Ok") =>
        /\ \E i \in QueueIndex :
              /\ tx_queue[i] = last.frame
              /\ \A j \in QueueIndex : j < i => tx_queue[j].id < last.frame.id
              /\ \A j \in QueueIndex : j > i => tx_queue[j].id >= last.frame.id
        /\ (pop_tx_frame(tx_queue).frame = last.frame) <=>
              ~ \E j \in QueueIndex : tx_queue[j].id < last.frame.id

C4_Witness ==
    /\ last.op = "return_tx_frame" /\ last.result = "Ok"
    /\ \E i, j, k \in QueueIndex :
          /\ i < j /\ j < k
          /\ tx_queue[j] = last.frame
          /\ tx_queue[i].id < last.frame.id
          /\ tx_queue[k].id = last.frame.id

\* C5: a transmit covered by an Ok try_reserve (no return_tx_frame since)
\* succeeds; try_reserve leaves the queue alone and returns OutOfMemoryError
\* when fewer free slots remain than it was asked for.
C5_ReserveGuarantee ==
    [][/\ (last'.op = "transmit" /\ reserved > 0) => last'.result = "Ok(None)"
       /\ last'.op = "try_reserve" =>
             /\ tx_queue' = tx_queue
             /\ (TC - Len(tx_queue) < last'.n) => last'.result = "OutOfMemoryError"
             /\ last'.result = "Ok" => reserved' = last'.n]_vars

C5_Witness ==
    /\ last.op = "transmit" /\ last.n = 1 /\ last.result = "Ok(None)"
    /\ Len(tx_queue) = TC


\* the tags of the frames of the transfer of the last send_payload
SentTags == last.frame.tag..(last.frame.tag + last.n - 1)
QueuedTags == {tx_queue[i].tag : i \in QueueIndex}

\* C6: after send_payload either the result is Ok and every frame of the
\* transfer is in the transmit queue, or it is not Ok and none of them is.
C6_SendAtomic ==
    last.op = "send_payload" =>
        IF last.result = "Ok" THEN SentTags \subseteq QueuedTags
        ELSE SentTags \cap QueuedTags = {}

C6_Witness ==
    /\ last.op = "send_payload" /\ last.result = "OutOfMemoryError"
    /\ last.n >= 2 /\ Len(tx_queue) < TC

\* C7: on a fresh ledger the i-th get_and_increment for a destination
\* returns i - 1 modulo 32: the values 0..31 in increasing order, then 0.
C7_CounterWraps ==
    \A d \in NodeIds : \A i \in 1..Len(log[d]) :
        log[d][i] = (i - 1) % TransferIdModulus

C7_Witness ==
    \E d \in NodeIds :
        /\ Len(log[d]) = TransferIdModulus + 1
        /\ log[d][TransferIdModulus] = TransferIdModulus - 1
        /\ log[d][TransferIdModulus + 1] = 0

\* C8: get_and_increment finds a counter for every destination up to and
\* including NodeId::MAX and returns without a panic.
C8_EveryNodeHasCounter ==
    (last.op = "get_and_increment" /\ last.n \in NodeIds) => last.result = "Ok"

\* C9: a send_payload that returns OutOfMemoryError leaves every counter of
\* the ledger as it was.
C9_CounterOnlyOnSuccess ==
    [][(last'.op = "send_payload" /\ last'.result = "OutOfMemoryError") =>
            ids' = ids]_vars

\* C10: the poll loop never panics, and it ends only by returning an I/O
\* error.
C10_LoopNeverPanics ==
    /\ node.pc # "panicked"
    /\ node.pc = "returned" => node.exit = "Other"

\* the data of a frame without its tail byte, and the fields of the tail byte
Body(frame) == SubSeq(frame.data, 1, Len(frame.data) - 1)
TailOf(frame) == frame.data[Len(frame.data)]
StartBit(frame) == (TailOf(frame) \div 128) % 2
EndBit(frame) == (TailOf(frame) \div 64) % 2
ToggleBit(frame) == (TailOf(frame) \div 32) % 2

\* the frame at the head of the bus opens a transfer whose transfer-ID is not
\* ahead of the last one delivered for its key, modulo the transfer-ID space
RepeatedStart ==
    /\ wire # <<>>
    /\ StartBit(Head(wire)) = 1
    /\ LET key == KeyOf(CanId_decode(Head(wire).id))
           tid == TailOf(Head(wire)) % TransferIdModulus
           t == receiver.seen[key]
       IN  /\ t # NotSeen
           /\ \A forward \in 1..(TransferIdModulus \div 2 - 1) :
                 tid # (t + forward) % TransferIdModulus

\* C11: a transfer is delivered at most once: when the receiver is given a
\* start frame whose transfer-ID is not newer (modulo 32) than the one last
\* delivered for its key, the frame is discarded, the receiver's state does
\* not change and nothing is delivered; no pushed transfer is delivered twice.
C11_DeliveredOnce ==
    [][/\ (RepeatedStart /\ last'.op = "accept_frame") =>
            (receiver' = receiver /\ delivered' = delivered)
       /\ Len(delivered') <= 1]_vars

C11_Witness ==
    /\ last.op = "accept_frame" /\ last.n = 0
    /\ wire = <<>> /\ delivered = <<>>
    /\ Len(transfer.payload) = 1
    /\ transfer.transfer_id = TransferIdModulus - 1
    /\ receiver.seen[KeyOf(transfer.header)] = 0

\* C12: once every frame of a pushed transfer has been given to the receiver
\* in order, exactly one transfer was delivered and its header, transfer-ID
\* and payload are those of the original; before that none is delivered.
C12_RoundTrip ==
    transfer # NoTransfer =>
        IF wire = <<>>
        THEN /\ Len(delivered) = 1
             /\ delivered[1].header = transfer.header
             /\ delivered[1].transfer_id = transfer.transfer_id
             /\ delivered[1].payload = transfer.payload
        ELSE delivered = <<>>

C12_Witness ==
    /\ wire = <<>> /\ Len(delivered) = 1
    /\ Len(transfer.payload) = 20
    /\ transfer.header = RequestSample
    /\ receiver.seen[KeyOf(MessageSample)] = 0

RECURSIVE Bodies(_)
Bodies(frames) ==
    IF frames = <<>> THEN <<>> ELSE Body(Head(frames)) \o Bodies(Tail(frames))

JustPushed(length) == last.op = "push" /\ Len(transfer.payload) = length

\* C13 as stated: a 20-byte payload with MTU 8 gives exactly three frames of
\* 7 bytes each before the tail byte, toggles 0,1,0, flags (1,0), (0,0), (0,1).
C13_ThreeFrames ==
    JustPushed(20) =>
        /\ Len(wire) = 3
        /\ \A k \in 1..3 : Len(Body(wire[k])) = 7
        /\ <<ToggleBit(wire[1]), ToggleBit(wire[2]), ToggleBit(wire[3])>> = <<0, 1, 0>>
        /\ <<StartBit(wire[1]), EndBit(wire[1])>> = <<1, 0>>
        /\ <<StartBit(wire[2]), EndBit(wire[2])>> = <<0, 0>>
        /\ <<StartBit(wire[3]), EndBit(wire[3])>> = <<0, 1>>

\* C13 amended: a 20-byte payload with MTU 8 gives exactly four frames; the
\* first three carry payload bytes [0..7), [7..14) and [14..20) with the high
\* checksum byte, the fourth the low checksum byte; toggles 0,1,0,1; start on
\* the first frame only, end on the last only. Every multi-frame transfer
\* carries the payload and its 2 checksum bytes in chunks of MTU-1 bytes.
C13_FourFrames ==
    /\ JustPushed(20) =>
          LET crc == TransferCrc(transfer.payload)
          IN  /\ Len(wire) = 4
              /\ Body(wire[1]) = SubSeq(transfer.payload, 1, 7)
              /\ Body(wire[2]) = SubSeq(transfer.payload, 8, 14)
              /\ Body(wire[3]) = SubSeq(transfer.payload, 15, 20) \o <<crc \div 256>>
              /\ Body(wire[4]) = <<crc % 256>>
              /\ [k \in 1..4 |-> ToggleBit(wire[k])] = <<0, 1, 0, 1>>
              /\ [k \in 1..4 |-> StartBit(wire[k])] = <<1, 0, 0, 0>>
              /\ [k \in 1..4 |-> EndBit(wire[k])] = <<0, 0, 0, 1>>
    /\ (last.op = "push" /\ Len(transfer.payload) > Mtu - 1) =>
          LET crc == TransferCrc(transfer.payload)
          IN  /\ Bodies(wire) = transfer.payload \o <<crc \div 256, crc % 256>>
              /\ \A k \in 1..(Len(wire) - 1) : Len(Body(wire[k])) = Mtu - 1
              /\ Len(Body(wire[Len(wire)])) \in 1..(Mtu - 1)
              /\ \A k \in 1..Len(wire) :
                    /\ StartBit(wire[k]) = (IF k = 1 THEN 1 ELSE 0)
                    /\ EndBit(wire[k]) = (IF k = Len(wire) THEN 1 ELSE 0)
                    /\ ToggleBit(wire[k]) = (k - 1) % 2

C13_Witness == JustPushed(20) /\ Len(wire) = 4

\* the first frame of a multi-frame transfer of the sampled header
StartFrame(h, transfer_id) ==
    CanFrame(CanId_encode(h),
             PayloadBytes(Mtu - 1, transfer_id) \o <<TailByte(TRUE, FALSE, 0, transfer_id)>>)

\* C14: a sweep at time now evicts every Accumulating session whose last
\* activity is older than the timeout and no other session; a second sweep
\* with the same now changes nothing, and a fresh start frame for an evicted
\* key is accepted afterwards.
C14_SweepEvictsExpired ==
    [][last'.op = "sweep" =>
        /\ receiver'.seen = receiver.seen
        /\ \A key \in Keys :
              LET session == receiver.sessions[key]
                  old == session # NoSession /\ clock - session.last_activity > RxTimeout
              IN  receiver'.sessions[key] = IF old THEN NoSession ELSE session
        /\ Receiver_sweep(receiver', clock, RxTimeout) = receiver'
        /\ \A h \in HeaderSamples :
              LET key == KeyOf(h)
                  session == receiver.sessions[key]
              IN  (session # NoSession /\ receiver'.sessions[key] = NoSession) =>
                      LET again == Receiver_accept(receiver',
                                       StartFrame(h, session.transfer_id), clock).receiver
                      IN  /\ again.sessions[key] # NoSession
                          /\ again.sessions[key].transfer_id = session.transfer_id
                          /\ again.sessions[key].last_activity = clock]_vars

C14_Witness ==
    /\ last.op = "sweep" /\ last.n = 1
    /\ \E key \in Keys : receiver.sessions[key] # NoSession
    /\ \E h \in HeaderSamples : receiver.sessions[KeyOf(h)] = NoSession

\* C15: subscriptions() returns exactly the list of the last apply_filters
\* call, in order, and the empty slice if memory ran out while that call
\* collected its list or if apply_filters was never called.
C15_SubscriptionsStored ==
    QueueOnlyDriver_subscriptions(subscriptions) =
        IF filters.called /\ ~filters.failed THEN filters.list ELSE <<>>

C15_Witness ==
    /\ last.op = "apply_filters" /\ last.n >= 1
    /\ filters.failed /\ Len(filters.list) >= 2
    /\ QueueOnlyDriver_subscriptions(subscriptions) = <<>>

\* C19: the receive queue is first-in first-out: the frames receive returned,
\* followed by the frames still queued, are the frames push_rx_frame accepted
\* in the order they were pushed, whatever their priority; receive returns
\* WouldBlock exactly when the queue is empty.
C19_ReceiveFifo ==
    /\ rx_pushed = rx_received \o rx_queue
    /\ last.op = "receive" => (last.result = "WouldBlock" <=> last.n = 0)
    /\ last.op = "receive" => (last.result = "Ok" <=> last.frame # NoFrame)

C19_Witness ==
    /\ last.op = "receive" /\ last.result = "Ok"
    /\ Len(rx_received) = 2
    /\ rx_received[1].id > rx_received[2].id
    /\ rx_received[1].tag < rx_received[2].tag

\* C20: push_rx_frame on a queue of RC frames returns OutOfMemoryError and
\* leaves the queue as it was; with fewer than RC frames it succeeds and the
\* frame goes to the back; the queue never holds more than RC frames.
C20_PushRxBounded ==
    [][/\ Len(rx_queue') <= RC
       /\ last'.op = "push_rx_frame" =>
             IF Len(rx_queue) >= RC
             THEN last'.result = "OutOfMemoryError" /\ rx_queue' = rx_queue
             ELSE last'.result = "Ok" /\ rx_queue' = rx_queue \o <<last'.frame>>]_vars

C20_Witness ==
    /\ last.op = "push_rx_frame" /\ last.result = "OutOfMemoryError"
    /\ Len(rx_queue) = RC
    /\ \A i \in 1..RC : rx_queue[i].tag < last.frame.tag

\* C16: the transfer send_payload hands to the Transmitter has this node as
\* its source, the requester's priority, the kind Request with the given
\* service and destination, the transfer-ID the destination's counter held
\* before the call, and the deadline now + timeout as its timestamp.
C16_RequestTransfer ==
    [][(last'.op = "send_payload" /\ ~panicked') =>
          /\ transfer'.header.source = requester.this_node
          /\ transfer'.header.priority = requester.priority
          /\ transfer'.header.kind = "Request"
          /\ transfer'.header.port = arguments'.service
          /\ transfer'.header.destination = arguments'.destination
          /\ transfer'.transfer_id = ids[arguments'.destination]
          /\ transfer'.timestamp = arguments'.now + requester.timeout
          /\ transfer'.payload = arguments'.payload]_vars

C16_Witness ==
    /\ last.op = "send_payload" /\ last.result = "Ok"
    /\ transfer # NoTransfer
    /\ transfer.transfer_id = 1
    /\ transfer.timestamp = MaxClock + requester.timeout
    /\ transfer.header.source = 1 /\ transfer.header.priority = 1

\* C17: get_and_increment(d) changes the counter of d only, so the IDs handed
\* out for one destination are consecutive modulo 32 however calls for other
\* destinations are interleaved.
C17_CountersIndependent ==
    [][last'.op = "get_and_increment" =>
        /\ \A other \in DOMAIN ids :
              other # last'.n => (ids'[other] = ids[other] /\ log'[other] = log[other])
        /\ \A d \in DOMAIN ids : \A i \in 1..(Len(log'[d]) - 1) :
              log'[d][i + 1] = (log'[d][i] + 1) % TransferIdModulus]_vars

C17_Witness ==
    /\ last.op = "get_and_increment" /\ last.n = 0 /\ last.result = "Ok"
    /\ Len(log[0]) = 2 /\ Len(log[1]) = 3
    /\ ids[0] = 2 /\ ids[1] = 3

\* the frames of a queue and how often each is in it
Copies(q, frame) == Cardinality({i \in 1..Len(q) : q[i] = frame})
FramesOf(q) == {q[i] : i \in 1..Len(q)}

\* C18: the transmit queue neither drops nor duplicates frames: a successful
\* transmit or return_tx_frame adds exactly its frame, a failed one and every
\* other call adds and removes nothing, pop_tx_frame removes exactly the
\* frame it returns and returns None exactly when the queue is empty; the
\* queue never holds more than TC frames.
C18_QueueConserves ==
    [][LET added == IF last'.op \in {"transmit", "return_tx_frame"} /\
                      last'.result \in {"Ok(None)", "Ok"}
                   THEN 1 ELSE 0
           removed == IF last'.op = "pop_tx_frame" /\ last'.result = "Some"
                     THEN 1 ELSE 0
       IN  /\ \A frame \in FramesOf(tx_queue) \cup FramesOf(tx_queue') \cup {last'.frame} :
                 Copies(tx_queue', frame) =
                     Copies(tx_queue, frame)
                         + (IF frame = last'.frame THEN added - removed ELSE 0)
           /\ Len(tx_queue') <= TC
           /\ last'.op = "pop_tx_frame" => (last'.result = "None" <=> tx_queue = <<>>)]_vars

C18_Witness ==
    /\ last.op = "return_tx_frame" /\ last.result = "Ok"
    /\ Len(tx_queue) = TC
    /\ sent >= 1

====
